---- MODULE Spec2Model ----
(***************************************************************************)
(* The chunked fetch / filter / deduplicate / append pipeline of           *)
(* belgium_municipalities.py (non-strict variant) and test2.py (strict     *)
(* variant).  One run of main() is modelled; the variable `strict` says    *)
(* which of the two scripts is running.                                    *)
(*                                                                         *)
(* External collaborators (osmnx fetches, GeoDataFrame.to_file) are        *)
(* modelled by their outcome: a fetch returns a batch or raises, a write   *)
(* stores the whole batch or raises and stores nothing.                    *)
(***************************************************************************)
EXTENDS Integers, FiniteSets, Sequences, TLC

VARIABLES
    strict,                     \* TRUE: test2.py, FALSE: belgium_municipalities.py
    pc,                         \* position of main()
    file_exists,                \* os.path.exists(output_path)
    output,                     \* rows of the layer in output_path, in file order
    processed_osm_ids,          \* the set of already saved identifiers
    total_municipalities_saved, \* the running total
    states,                     \* len(states): number of chunks fetched
    i,                          \* number of chunks the loop has visited
    last,                       \* what the last step did (decides the line printed)
    place_fetches,              \* history: calls of features_from_place
    chunk_fetches,              \* history: calls of features_from_polygon
    write_calls,                \* history: calls of to_file
    saved_sizes,                \* history: sum of the sizes of the batches written
    first_chunk,                \* history: id -> first succeeding chunk that returned it
    returned_again,             \* history: id -> a later succeeding chunk returned it too
    elements                    \* id -> attributes of the OSM element, once fetched

vars == <<strict, pc, file_exists, output, processed_osm_ids,
          total_municipalities_saved, states, i, last, place_fetches,
          chunk_fetches, write_calls, saved_sizes, first_chunk,
          returned_again, elements>>

(* ------------------------------ bounds -------------------------------- *)
MaxChunks == 2      \* at most this many chunk regions (states) are returned
MaxId == 2          \* identifiers 1..MaxId can be returned by the fetches

Ids == 1..MaxId

(* --------------------------- configuration ---------------------------- *)
target_admin_level == "8"
OtherLevel == "9"
NoLevel == "nan"                \* the feature carries no admin_level tag
PolygonTypes == {"Polygon", "MultiPolygon"}
(* Mutant: 'admin_level' is missing from the list. *)
columns_to_keep_no_level == {"id", "gtype", "within", "chunk"}

(* ['name', 'geometry', 'admin_level'] and the index: the geometry is its   *)
(* type and its position (gtype, within); chunk travels with the row.      *)
columns_to_keep == {"id", "admin_level", "gtype", "within", "chunk"}

(* A fetched feature.  id is the index entry; gtype and within describe    *)
(* the geometry (its type, and whether it lies wholly inside the country   *)
(* boundary); tags stands for the passthrough columns; chunk records which *)
(* chunk's fetch produced this copy.                                       *)
Feature(id, level, gtype, within, c) ==
    [id |-> id, admin_level |-> level, gtype |-> gtype, within |-> within,
     tags |-> "other", chunk |-> c]

Attr(level, gtype, within) ==
    [admin_level |-> level, gtype |-> gtype, within |-> within]

(* The elements the fetches draw from: a valid municipality of either      *)
(* polygon type, one element for each single reason to drop it, and one    *)
(* that every filter drops.                                                *)
Attrs ==
    { Attr(target_admin_level, "Polygon", TRUE),
      Attr(target_admin_level, "MultiPolygon", TRUE),
      Attr(OtherLevel, "Polygon", TRUE),
      Attr(NoLevel, "Polygon", TRUE),
      Attr(target_admin_level, "Polygon", FALSE),
      Attr(target_admin_level, "LineString", TRUE),
      Attr(OtherLevel, "LineString", FALSE) }

Unknown == [admin_level |-> NoLevel, gtype |-> "unknown", within |-> FALSE]

(* An OSM element has one set of tags and one geometry, whichever chunk's  *)
(* query returns it: elements[id] is fixed the first time id is fetched.   *)
(* All batches a fetch for chunk c can return, given the attributes el of  *)
(* the elements: any set of identifiers, each once (the index of a fetched *)
(* frame is unique).                                                       *)
Batch(S, el, c) ==
    { Feature(id, el[id].admin_level, el[id].gtype, el[id].within, c) : id \in S }

Known(el) == { id \in Ids : el[id] # Unknown }

(* The ways a fetch returning the identifiers S extends what is known. *)
Extensions(S, el) ==
    { [id \in Ids |-> IF id \in DOMAIN f THEN f[id] ELSE el[id]] :
        f \in [S \ Known(el) -> Attrs] }

BatchIds(batch) == { f.id : f \in batch }

(* A row of a prior run's file. *)
StaleRow == [id |-> 1, admin_level |-> target_admin_level, gtype |-> "Polygon",
             within |-> TRUE, chunk |-> 0]

(* ----------------------------- the filters ---------------------------- *)
LevelFilter(batch) == { f \in batch : f.admin_level = target_admin_level }

(* Mutant: intersecting the boundary is enough. *)
WithinFilterIntersects(batch) == batch

WithinFilter(batch) == { f \in batch : f.within }

(* Mutant: the already saved identifiers are not consulted. *)
NoveltyFilterOff(batch, ids) == batch

NoveltyFilter(batch, ids) == { f \in batch : f.id \notin ids }

(* Mutant: every geometry type is kept. *)
TypeFilterOff(batch) == batch

TypeFilter(batch) == { f \in batch : f.gtype \in PolygonTypes }

Project(f) == [ col \in (DOMAIN f) \cap columns_to_keep |-> f[col] ]

Projection(batch) == { Project(f) : f \in batch }

(* The frame has an admin_level column iff some feature carries the tag. *)
HasLevelColumn(batch) ==
    \E f \in batch : "admin_level" \in DOMAIN f /\ f.admin_level # NoLevel

(* The rows of a batch in index order. *)
RECURSIVE ToRows(_)
ToRows(batch) ==
    IF batch = {} THEN << >>
    ELSE LET f == CHOOSE g \in batch : \A h \in batch : g.id <= h.id
         IN  << f >> \o ToRows(batch \ {f})

(* The body of the try block up to the write, by variant: the outcome of   *)
(* the filters and the batch left to save.                                 *)
StrictPipeline(raw, ids) ==
    IF raw = {} THEN [outcome |-> "no_features", batch |-> {}]
    ELSE IF ~HasLevelColumn(raw) THEN [outcome |-> "level_key_error", batch |-> {}]
    ELSE LET new == NoveltyFilter(WithinFilter(LevelFilter(raw)), ids)
             clean == Projection(TypeFilter(new))
         IN  IF new = {} THEN [outcome |-> "no_new", batch |-> {}]
             ELSE IF clean = {} THEN [outcome |-> "no_polygons", batch |-> {}]
             ELSE [outcome |-> "save", batch |-> clean]

PlainPipeline(raw, ids) ==
    LET new == IF raw # {} THEN NoveltyFilter(raw, ids) ELSE raw
        clean == Projection(TypeFilter(new))
    IN  IF new = {} THEN [outcome |-> "no_new", batch |-> {}]
        ELSE IF clean = {} THEN [outcome |-> "no_polygons", batch |-> {}]
        ELSE [outcome |-> "save", batch |-> clean]

Pipeline(raw, ids) ==
    IF strict THEN StrictPipeline(raw, ids) ELSE PlainPipeline(raw, ids)

(* Mutant: the second write still creates the file when the first saved one row. *)
write_mode_off_by_one(total) == IF total > 1 THEN "a" ELSE "w"

(* Mutant: every write creates the file anew. *)
write_mode_always_w(total) == "w"

write_mode(total) == IF total > 0 THEN "a" ELSE "w"

(* to_file on success: mode 'w' replaces the layer, mode 'a' appends. *)
ToFile(rows, mode, old) == IF mode = "w" THEN rows ELSE old \o rows

(* The line the last step printed. *)
Printed ==
    CASE last \in {"fetch_failed", "level_key_error", "write_failed"} -> "chunk_error"
      [] last \in {"boundary_failed", "states_failed"} -> "cannot_proceed"
      [] OTHER -> last

(* ------------------------------- Init --------------------------------- *)
Init ==
    /\ strict \in BOOLEAN
    /\ pc = "setup"
    /\ file_exists \in BOOLEAN
    /\ output = IF file_exists THEN << StaleRow >> ELSE << >>
    /\ processed_osm_ids = {}
    /\ total_municipalities_saved = 0
    /\ states = 0
    /\ i = 0
    /\ last = "start"
    /\ place_fetches = 0
    /\ chunk_fetches = 0
    /\ write_calls = 0
    /\ saved_sizes = 0
    /\ first_chunk = [id \in Ids |-> 0]
    /\ returned_again = [id \in Ids |-> FALSE]
    /\ elements = [id \in Ids |-> Unknown]

History == <<place_fetches, chunk_fetches, write_calls, saved_sizes,
             first_chunk, returned_again, elements>>

(* ------------------------------ actions ------------------------------- *)
(* Mutant: the prior output file is left in place. *)
SetupKeepsFile ==
    /\ pc = "setup"
    /\ last' = "start"
    /\ pc' = IF strict THEN "fetch_boundary" ELSE "fetch_chunks"
    /\ UNCHANGED <<strict, file_exists, output, processed_osm_ids,
                   total_municipalities_saved, states, i, History>>

(* 2. INITIAL SETUP: remove a prior output file. *)
Setup ==
    /\ pc = "setup"
    /\ file_exists' = FALSE
    /\ output' = << >>
    /\ last' = IF file_exists THEN "removed" ELSE "start"
    /\ pc' = IF strict THEN "fetch_boundary" ELSE "fetch_chunks"
    /\ UNCHANGED <<strict, processed_osm_ids, total_municipalities_saved,
                   states, i, History>>

(* test2.py only: geocode the country boundary, or return. *)
FetchBoundary ==
    /\ pc = "fetch_boundary"
    /\ \E ok \in BOOLEAN :
         /\ pc' = IF ok THEN "fetch_chunks" ELSE "done"
         /\ last' = IF ok THEN "boundary_ok" ELSE "boundary_failed"
    /\ UNCHANGED <<strict, file_exists, output, processed_osm_ids,
                   total_municipalities_saved, states, i, History>>

(* Mutant: the except clause lacks its return. *)
FetchChunksNoReturn ==
    /\ pc = "fetch_chunks"
    /\ place_fetches' = place_fetches + 1
    /\ \E ok \in BOOLEAN, n \in 0..MaxChunks :
         /\ pc' = "process"
         /\ last' = IF ok THEN "states_ok" ELSE "states_failed"
         /\ states' = n
    /\ UNCHANGED <<strict, file_exists, output, processed_osm_ids,
                   total_municipalities_saved, i, chunk_fetches, write_calls,
                   saved_sizes, first_chunk, returned_again, elements>>

(* Fetch the chunk regions once, or return. *)
FetchChunks ==
    /\ pc = "fetch_chunks"
    /\ place_fetches' = place_fetches + 1
    /\ \E ok \in BOOLEAN, n \in 0..MaxChunks :
         /\ pc' = IF ok THEN "process" ELSE "done"
         /\ last' = IF ok THEN "states_ok" ELSE "states_failed"
         /\ states' = IF ok THEN n ELSE states
    /\ UNCHANGED <<strict, file_exists, output, processed_osm_ids,
                   total_municipalities_saved, i, chunk_fetches, write_calls,
                   saved_sizes, first_chunk, returned_again, elements>>

(* Mutant: the identifiers are marked before to_file is called. *)
MarkedBeforeWrite(saving, write_ok) == saving

(* Mutant: the set is assigned, not updated. *)
UpdateReplaces(ids, batch) == BatchIds(batch)

(* processed_osm_ids.update(municipalities_chunk.index) *)
Update(ids, batch) == ids \cup BatchIds(batch)

(* to_file returned, so the two lines after it run: the identifiers are   *)
(* marked and the total is raised only then.                               *)
Marked(saving, write_ok) == saving /\ write_ok

(* Mutant: the total counts chunks, not features. *)
AddSavedOne(total, batch) == total + 1

(* total_municipalities_saved += len(municipalities_chunk) *)
AddSaved(total, batch) == total + Cardinality(batch)

(* Mutant: no try/except around the iteration, an exception ends the run. *)
AfterChunkAbort(raised) == IF raised THEN "done" ELSE "process"

(* The except clause prints and falls through to the next iteration:       *)
(* where main() is after an iteration, raised or not.                      *)
AfterChunk(raised) == "process"

(* Mutant: a chunk that raised is tried again. *)
NextChunkRetry(k, raised) == IF raised THEN k ELSE k + 1

(* enumerate() hands out the next chunk, whatever the last one did. *)
NextChunk(k, raised) == k + 1

(* The effect of one iteration on the program's variables and on the      *)
(* history, given what the fetch did (raised, or returned raw) and what    *)
(* the write does if it is reached.                                        *)
Iteration(fetch_ok, raw, write_ok) ==
    LET res == Pipeline(raw, processed_osm_ids)
        saving == fetch_ok /\ res.outcome = "save"
        saved == saving /\ write_ok
        marked == Marked(saving, write_ok)
        mode == write_mode(total_municipalities_saved)
        raised == ~fetch_ok \/ res.outcome = "level_key_error"
                            \/ (saving /\ ~write_ok)
    IN  /\ last' = IF ~fetch_ok THEN "fetch_failed"
                   ELSE IF ~saving THEN res.outcome
                   ELSE IF write_ok THEN "saved" ELSE "write_failed"
        /\ output' = IF saved THEN ToFile(ToRows(res.batch), mode, output)
                     ELSE output
        /\ file_exists' = (file_exists \/ saved)
        /\ processed_osm_ids' = IF marked
                                THEN Update(processed_osm_ids, res.batch)
                                ELSE processed_osm_ids
        /\ total_municipalities_saved' =
               IF marked THEN AddSaved(total_municipalities_saved, res.batch)
               ELSE total_municipalities_saved
        /\ pc' = AfterChunk(raised)
        /\ i' = NextChunk(i, raised)
        /\ chunk_fetches' = chunk_fetches + 1
        /\ write_calls' = IF saving THEN write_calls + 1 ELSE write_calls
        /\ saved_sizes' = IF saved THEN saved_sizes + Cardinality(res.batch)
                          ELSE saved_sizes
        /\ first_chunk' = [id \in Ids |->
               IF ~raised /\ id \in BatchIds(raw) /\ first_chunk[id] = 0
               THEN i + 1 ELSE first_chunk[id]]
        /\ returned_again' = [id \in Ids |->
               IF ~raised /\ id \in BatchIds(raw) /\ first_chunk[id] # 0
               THEN TRUE ELSE returned_again[id]]

(* One iteration of the loop over the chunks: fetch, filter, save. *)
ProcessChunk ==
    /\ pc = "process"
    /\ i < states
    /\ \/ /\ Iteration(FALSE, {}, FALSE)
          /\ elements' = elements
       \/ \E S \in SUBSET Ids : \E el \in Extensions(S, elements) :
             \E write_ok \in BOOLEAN :
               /\ elements' = el
               /\ Iteration(TRUE, Batch(S, el, i + 1), write_ok)
    /\ UNCHANGED <<strict, states, place_fetches>>

(* 5. FINALIZATION: the loop is over, print the summary. *)
Finalize ==
    /\ pc = "process"
    /\ i = states
    /\ pc' = "done"
    /\ last' = "summary"
    /\ UNCHANGED <<strict, file_exists, output, processed_osm_ids,
                   total_municipalities_saved, states, i, History>>

Next == Setup \/ FetchBoundary \/ FetchChunks \/ ProcessChunk \/ Finalize

Spec == Init /\ [][Next]_vars

(* The script runs to its end: no step of main() waits forever. *)
FairSpec == Spec /\ WF_vars(Next)


(* ============================== claims ================================ *)

Rows == 1..Len(output)

RowsOf(id) == { k \in Rows : output[k].id = id }

(* The element passes every filter of the running variant but novelty. *)
PassesFilters(id) ==
    LET b == Batch({id}, elements, 0)
    IN  TypeFilter(IF strict THEN WithinFilter(LevelFilter(b)) ELSE b) # {}

Fatal == last \in {"boundary_failed", "states_failed"}

(* C1 - Uniqueness: in every reachable state no two rows of the Output     *)
(* Container carry the same identifier, also when several chunks return    *)
(* the same identifier and whatever fetches and writes fail.               *)
C1_Uniqueness ==
    \A a \in Rows, b \in Rows : a # b => output[a].id # output[b].id

(* An identifier saved from one chunk was returned again by a later one. *)
C1_Witness ==
    \E id \in Ids : returned_again[id] /\ RowsOf(id) # {}

(* C2 - Level invariant: every row of the Output Container has the target  *)
(* administrative level, in strict and in non-strict mode alike.           *)
C2_LevelInvariant ==
    \A k \in Rows : output[k].admin_level = target_admin_level

(* C3 - Chunk isolation on fetch failure: the iteration whose fetch fails  *)
(* leaves the Dedup Set, the running total and the Output Container        *)
(* unchanged and the run goes on with the next chunk; at the end the       *)
(* running total is the sum of the sizes of the batches written.           *)
C3_FetchFailureIsolated ==
    /\ [][ (chunk_fetches' = chunk_fetches + 1 /\ last' = "fetch_failed")
             => /\ processed_osm_ids' = processed_osm_ids
                /\ total_municipalities_saved' = total_municipalities_saved
                /\ output' = output
                /\ file_exists' = file_exists
                /\ pc' = "process"
                /\ i' = i + 1 ]_vars
    /\ [](pc = "done" => total_municipalities_saved = saved_sizes)

(* A fetch failed after an earlier chunk was saved. *)
C3_Witness ==
    /\ last = "fetch_failed"
    /\ total_municipalities_saved > 0
    /\ Len(output) > 0

(* C4 - Chunk isolation on write failure: the iteration whose write fails  *)
(* adds nothing to the Dedup Set, does not raise the running total, keeps  *)
(* every row written by an earlier chunk and goes on with the next chunk.  *)
C4_WriteFailureIsolated ==
    [][ (chunk_fetches' = chunk_fetches + 1 /\ last' = "write_failed")
          => /\ processed_osm_ids' = processed_osm_ids
             /\ total_municipalities_saved' = total_municipalities_saved
             /\ Len(output') >= Len(output)
             /\ \A k \in Rows : output'[k] = output[k]
             /\ pc' = "process"
             /\ i' = i + 1 ]_vars

(* A write failed after an earlier chunk had been saved. *)
C4_Witness ==
    last = "write_failed" /\ Len(output) > 0

(* C5 (as claimed) - every run that completes has printed the completion   *)
(* summary, the run whose chunk-set or boundary fetch fails included.      *)
C5_SummaryAlways ==
    pc = "done" => last = "summary"

(* C5 (amended) - every run eventually completes; the step that ends it    *)
(* prints the completion summary exactly when the chunk set had been       *)
(* obtained, whatever chunk failures occurred, and otherwise prints that   *)
(* the run cannot proceed.                                                 *)
C5_CompletesSummaryIfChunks ==
    /\ <>(pc = "done")
    /\ [][ (pc # "done" /\ pc' = "done")
             => /\ (last' = "summary") <=> (pc = "process")
                /\ (last' # "summary") => (pc \in {"fetch_boundary", "fetch_chunks"}
                                           /\ Printed' = "cannot_proceed") ]_vars

(* A run in which every visited chunk failed printed the summary. *)
C5_Witness ==
    /\ pc = "done" /\ last = "summary"
    /\ i > 0 /\ total_municipalities_saved = 0

(* C6 (as claimed) - the Output Container exists from the start of the     *)
(* first chunk's processing onwards.                                       *)
C6_ExistsBeforeFirstChunk ==
    pc = "process" => file_exists

(* C6 (amended) - a prior file is removed before the first chunk; from     *)
(* then on the Output Container exists exactly when a batch has been       *)
(* written, and it holds rows of this run only.                            *)
C6_ExistsIffWritten ==
    pc # "setup" =>
        /\ file_exists <=> total_municipalities_saved > 0
        /\ ~file_exists => output = << >>
        /\ \A k \in Rows : output[k].chunk # 0

(* A run ended with every chunk skipped or empty and no container. *)
C6_Witness ==
    pc = "done" /\ last = "summary" /\ i > 0 /\ ~file_exists

(* C7 - Fatal run-level failure: after a failed boundary or chunk-set      *)
(* fetch the run is over with zero chunks processed, no chunk fetch, no    *)
(* write, an empty Dedup Set, a total of 0 and no second fetch.            *)
C7_FatalFailure ==
    Fatal =>
        /\ pc = "done"
        /\ i = 0 /\ chunk_fetches = 0 /\ write_calls = 0
        /\ processed_osm_ids = {} /\ total_municipalities_saved = 0
        /\ output = << >> /\ ~file_exists
        /\ place_fetches = (IF last = "states_failed" THEN 1 ELSE 0)

(* The chunk-set fetch failed. *)
C7_Witness ==
    last = "states_failed" /\ pc = "done"

(* C8 - Running total: at the end of a run the running total, the size of  *)
(* the Dedup Set and the number of rows of the Output Container agree.     *)
C8_RunningTotal ==
    pc = "done" =>
        /\ total_municipalities_saved = Cardinality(processed_osm_ids)
        /\ total_municipalities_saved = Len(output)

(* A run ended with two chunks saved, a repeated identifier and a failed   *)
(* or skipped write in between.                                            *)
C8_Witness ==
    /\ pc = "done"
    /\ total_municipalities_saved >= 2
    /\ \E id \in Ids : returned_again[id]
    /\ \E a \in Rows, b \in Rows : output[a].chunk # output[b].chunk

(* C9 - Strict containment: in strict mode every row of the Output         *)
(* Container lies wholly within the country boundary.                      *)
C9_StrictContainment ==
    strict => \A k \in Rows : output[k].within

(* Strict mode saved a chunk whose fetch also returned an element that is  *)
(* partly outside.                                                         *)
C9_Witness ==
    /\ strict /\ last = "saved"
    /\ \E id \in Ids : first_chunk[id] = i /\ ~elements[id].within
                       /\ elements[id].admin_level = target_admin_level
                       /\ elements[id].gtype \in PolygonTypes

(* C10 (as claimed) - an identifier returned by two succeeding chunks has  *)
(* exactly one row at the end of the run, the copy of the first of them.   *)
C10_FirstChunkWins ==
    (pc = "done" /\ last = "summary") =>
        \A id \in Ids : returned_again[id] =>
            /\ Cardinality(RowsOf(id)) = 1
            /\ \A k \in RowsOf(id) : output[k].chunk = first_chunk[id]

(* C10 (amended) - an identifier returned by two succeeding chunks, whose  *)
(* element passes the level, containment (strict mode) and geometry-type   *)
(* filters, has exactly one row at the end, the copy of the first chunk.   *)
C10_FirstValidChunkWins ==
    (pc = "done" /\ last = "summary") =>
        \A id \in Ids : (returned_again[id] /\ PassesFilters(id)) =>
            /\ Cardinality(RowsOf(id)) = 1
            /\ \A k \in RowsOf(id) : output[k].chunk = first_chunk[id]

(* Such an identifier was saved from the first chunk and returned again. *)
C10_Witness ==
    /\ pc = "done" /\ last = "summary"
    /\ \E id \in Ids : /\ returned_again[id] /\ PassesFilters(id)
                       /\ first_chunk[id] = 1

(* C11 - Geometry-type invariant: every row of the Output Container is a   *)
(* polygon or multi-polygon, in both modes, and no identifier of an        *)
(* element of another geometry type is in the Dedup Set.                   *)
C11_GeometryType ==
    /\ \A k \in Rows : output[k].gtype \in PolygonTypes
    /\ \A id \in processed_osm_ids : elements[id].gtype \in PolygonTypes

(* A chunk was saved whose fetch also returned a non-polygon element. *)
C11_Witness ==
    /\ last = "saved"
    /\ \E id \in Ids : first_chunk[id] = i /\ elements[id].gtype = "LineString"

(* The batches the next fetch can return from the elements met so far. *)
NextBatches == { Batch(S, elements, i + 1) : S \in SUBSET Known(elements) }

(* C12 - Strictness flag scope: on a batch whose features all lie within   *)
(* the country boundary the strict and the non-strict pipeline leave the   *)
(* same batch to write; an otherwise valid feature partly outside the      *)
(* boundary is kept by the non-strict and dropped by the strict pipeline.  *)
C12_StrictnessScope ==
    \A raw \in NextBatches :
        LET s == StrictPipeline(raw, processed_osm_ids).batch
            p == PlainPipeline(raw, processed_osm_ids).batch
        IN  /\ (\A f \in raw : f.within) => s = p
            /\ \A f \in raw :
                 ( /\ ~f.within
                   /\ f.admin_level = target_admin_level
                   /\ f.gtype \in PolygonTypes
                   /\ f.id \notin processed_osm_ids )
                 => (Project(f) \in p /\ Project(f) \notin s)

(* C13 - No truncation after a successful write: the mode of a write is    *)
(* 'w' exactly when no batch has been written earlier in the run, and from *)
(* setup onwards no step removes or changes a row of the Output Container. *)
C13_NoTruncation ==
    /\ [](pc # "setup" =>
            (write_mode(total_municipalities_saved) = "w" <=> saved_sizes = 0))
    /\ [][ pc # "setup" =>
             /\ Len(output') >= Len(output)
             /\ \A k \in Rows : output'[k] = output[k] ]_vars

(* A later chunk's batch was appended behind the rows of an earlier one. *)
C13_Witness ==
    /\ last = "saved"
    /\ Len(output) >= 2
    /\ output[1].chunk < output[Len(output)].chunk

(* C14 - Dedup Set tracks the output: the Dedup Set changes only in a step *)
(* whose write succeeded, by exactly the identifiers of the rows that step *)
(* added, and between chunks it is the set of identifiers of the rows of   *)
(* the Output Container.                                                   *)
C14_DedupTracksOutput ==
    /\ [](pc \in {"process", "done"} =>
            processed_osm_ids = { output[k].id : k \in Rows })
    /\ [][ processed_osm_ids' # processed_osm_ids =>
             /\ last' = "saved"
             /\ write_calls' = write_calls + 1
             /\ processed_osm_ids' = processed_osm_ids \cup
                  { output'[k].id : k \in (Len(output) + 1)..Len(output') } ]_vars

(* Between the first and the second chunk, after the first was saved. *)
C14_Witness ==
    /\ pc = "process" /\ i >= 1 /\ i < states
    /\ last = "saved"
    /\ processed_osm_ids # {}

(* C15 (as claimed) - Idempotence of filtering: the pipeline applied to a  *)
(* batch it has produced yields that batch again, with the Dedup Set as it *)
(* was before the batch was written and with the Dedup Set after the       *)
(* batch's identifiers have been marked.                                   *)
C15_Idempotent ==
    \A raw \in NextBatches :
        LET res == Pipeline(raw, processed_osm_ids)
        IN  res.outcome = "save" =>
              /\ Pipeline(res.batch, processed_osm_ids) = res
              /\ Pipeline(res.batch, Update(processed_osm_ids, res.batch)).batch
                   = res.batch

(* C15 (amended) - the pipeline applied to a batch it has produced yields  *)
(* that batch again with the Dedup Set as it was before the batch was      *)
(* written; with the Dedup Set after the batch's identifiers have been     *)
(* marked the novelty filter drops every feature and nothing is left.      *)
C15_IdempotentBeforeMarking ==
    \A raw \in NextBatches :
        LET res == Pipeline(raw, processed_osm_ids)
        IN  res.outcome = "save" =>
              /\ Pipeline(res.batch, processed_osm_ids) = res
              /\ Pipeline(res.batch, Update(processed_osm_ids, res.batch))
                   = [outcome |-> "no_new", batch |-> {}]

(* After a saved chunk, a batch that the filters shrink but do not empty. *)
C15_Witness ==
    /\ processed_osm_ids # {}
    /\ \E raw \in NextBatches :
         LET res == Pipeline(raw, processed_osm_ids)
         IN  /\ res.outcome = "save"
             /\ Cardinality(res.batch) < Cardinality(raw)

(* C16 - Visit order and termination: the chunk set is fetched once; each  *)
(* chunk fetch is the visit of the next chunk in order (the k-th fetch     *)
(* visits chunk k, whatever the visit before it did), no chunk is visited  *)
(* twice or out of order, and once the chunk set is there the run reaches  *)
(* DONE with every chunk visited.                                          *)
C16_VisitOrder ==
    /\ [](place_fetches <= 1 /\ chunk_fetches = i /\ i <= states)
    /\ [](\A a \in Rows, b \in Rows : a < b => output[a].chunk <= output[b].chunk)
    /\ [][ (chunk_fetches' # chunk_fetches \/ i' # i) =>
             /\ pc = "process" /\ i < states
             /\ i' = i + 1
             /\ chunk_fetches' = chunk_fetches + 1
             /\ pc' = "process" ]_vars
    /\ [](pc = "done" /\ ~Fatal => i = states)
    /\ (pc = "process") ~> (pc = "done" /\ i = states)

(* A run ended after visiting two chunks of which the first had failed. *)
C16_Witness ==
    /\ pc = "done" /\ last = "summary"
    /\ i = states /\ states >= 2
    /\ write_calls < chunk_fetches
    /\ output # << >> /\ output[1].chunk = states

(* What the last step shows of a chunk whose batch came back empty or was  *)
(* emptied by a filter stage; "level_key_error" is the fetched batch in    *)
(* which no feature carries a level, so that the level filter leaves none. *)
EmptyOutcomes == {"no_features", "no_new", "no_polygons", "level_key_error"}

(* C17 - Expected-empty chunk: an iteration whose batch is empty after the *)
(* fetch or after a filter stage calls no write, leaves the Dedup Set, the *)
(* running total and the Output Container unchanged, does not print the    *)
(* chunk error and goes on with the next chunk.                            *)
C17_ExpectedEmpty ==
    [][ (chunk_fetches' = chunk_fetches + 1 /\ last' \in EmptyOutcomes) =>
          /\ write_calls' = write_calls
          /\ processed_osm_ids' = processed_osm_ids
          /\ total_municipalities_saved' = total_municipalities_saved
          /\ output' = output /\ file_exists' = file_exists
          /\ Printed' # "chunk_error"
          /\ pc' = "process" /\ i' = i + 1 ]_vars

(* C18 - Dedup Set monotonicity: no step removes an identifier from the    *)
(* Dedup Set, so every state's set contains the set of every earlier one   *)
(* and its size never goes down.                                           *)
C18_DedupMonotone ==
    [][ /\ processed_osm_ids \subseteq processed_osm_ids'
        /\ Cardinality(processed_osm_ids) <= Cardinality(processed_osm_ids') ]_vars

(* A later chunk was saved and an identifier marked by an earlier chunk is *)
(* still in the set.                                                       *)
C18_Witness ==
    /\ last = "saved"
    /\ \E id \in processed_osm_ids : first_chunk[id] >= 1 /\ first_chunk[id] < i
    /\ \E id \in processed_osm_ids : first_chunk[id] = i

====
